---------------------------- MODULE Spec2Model ----------------------------
(***************************************************************************)
(* State-machine model of three client-side units of the storefront:       *)
(*   - RefundDialog      (src/components/checkout/RefundDialog.tsx)        *)
(*   - CountrySelector   (src/components/header/mobile-menu/...)           *)
(*   - AuthProvider      (src/contexts/AuthContext.tsx): the session       *)
(*     listener with its profile / role fetches, and signUp.               *)
(* The units share no state, so each has its own specification; the        *)
(* variables of the other units are frozen in it.                          *)
(*                                                                         *)
(* JavaScript runs each handler to its next await without interleaving,    *)
(* so one action is one such run-to-completion segment.  Strings that the  *)
(* code inspects character by character (reason, search query, country     *)
(* names, the amount input) are sequences of one-character strings.        *)
(***************************************************************************)
EXTENDS Integers, Sequences, FiniteSets, TLC

VARIABLES
  \* ---- RefundDialog
  orderDetails,        \* prop: [orderId, amount]
  hasOnSuccess,        \* prop: whether the optional onSuccess callback is given
  refundAmount,        \* useState<number>(orderDetails.amount)
  reason,              \* useState<string>("")
  isProcessing,        \* useState<boolean>(false)
  pending,             \* the processRefund request in flight, or NoRequest
  requests,            \* number of processRefund calls awaiting their response
  submitLog,           \* what the latest handleSubmit invocation did, in order
  \* ---- CountrySelector
  countrySearchQuery,  \* useState('')
  \* ---- AuthProvider: session state
  session,             \* useState<Session | null>(null)
  user,                \* useState<User | null>(null)
  loading,             \* useState(true)
  isLoading,           \* useState(true)
  isAdmin,             \* useState(false)
  profile,             \* useState<any>(null)
  getSessionPending,   \* the getSession() promise of the mount effect
  inflight,            \* profile / role queries awaiting their response
  calls,               \* number of callbacks that may start queries, so far
  lastTrace,           \* the latest listener invocation: its call number and effects
  signedOut,           \* observation: a SIGNED_OUT was handled, no user since
  latest,              \* observation: the latest-started query of each kind
  \* ---- AuthProvider: signUp
  suPc,                \* where the running signUp call is suspended
  suEmail,             \* its email argument
  suUserId,            \* data.user.id of the identity it created
  suExisted,           \* observation: a profile row with the email existed at call
  profileError,        \* its local profileError, once the insert returned
  profileRows,         \* the profiles table: set of [id, email, user_type]
  authIds,             \* identities of the auth service
  apiCalls,            \* backend calls made by the latest signUp, in order
  suToasts,            \* notifications shown by the latest signUp, in order
  suResult,            \* what the latest signUp returned, or NoResult
  signUps              \* number of signUp calls so far

refundVars  == <<orderDetails, hasOnSuccess, refundAmount, reason, isProcessing,
                 pending, requests, submitLog>>
countryVars == <<countrySearchQuery>>
sessionVars == <<session, user, loading, isLoading, isAdmin, profile,
                 getSessionPending, inflight, calls, lastTrace, signedOut,
                 latest>>
signUpVars  == <<suPc, suEmail, suUserId, suExisted, profileError, profileRows, authIds,
                 apiCalls, suToasts, suResult, signUps>>
vars == <<refundVars, countryVars, sessionVars, signUpVars>>

Null == "null"

\* JavaScript's null where the other values are records: no session, no profile.
NoSession == [user |-> Null]
NoProfile == [id |-> Null, user_type |-> Null]

\* Resting values of the AuthProvider.
NoResult  == [returned |-> FALSE, error |-> Null, data |-> Null]
NoTrace   == [call |-> 0, effects |-> <<>>]
NoQueries == [profileCall |-> 0, profileStatus |-> "none",
              roleCall |-> 0, roleStatus |-> "none"]

(***************************************************************************)
(* Strings as sequences of characters.                                     *)
(***************************************************************************)
Whitespace == {" "}

RECURSIVE TrimStart(_)
TrimStart(s) ==
  IF s # <<>> /\ Head(s) \in Whitespace THEN TrimStart(Tail(s)) ELSE s

RECURSIVE TrimEnd(_)
TrimEnd(s) ==
  IF s # <<>> /\ s[Len(s)] \in Whitespace
    THEN TrimEnd(SubSeq(s, 1, Len(s) - 1))
    ELSE s

\* String.prototype.trim
Trim(s) == TrimEnd(TrimStart(s))

RECURSIVE StringsUpTo(_, _)
StringsUpTo(chars, n) ==
  IF n = 0 THEN { <<>> }
  ELSE LET shorter == StringsUpTo(chars, n - 1)
       IN  shorter \cup { Append(s, c) : s \in shorter, c \in chars }


(***************************************************************************)
(* RefundDialog                                                            *)
(***************************************************************************)
notRefund == <<countryVars, sessionVars, signUpVars>>

MaxAmount    == 2      \* order totals range over 0..MaxAmount
MaxReasonLen == 2      \* typed reasons have at most this many characters

OrderIds    == {42, 43}
ReasonChars == {" ", "d"}
Reasons     == StringsUpTo(ReasonChars, MaxReasonLen)
Digits      == {"0", "1", "2", "3", "4"}
\* Texts of the amount input: empty, not a number, negative, zero, positive,
\* two digits, and a number followed by other text.
AmountTexts == { <<>>, <<"a">>, <<"-", "1">>, <<"0">>, <<"1">>, <<"2">>, <<"3">>,
                 <<"4">>, <<"1", "0">>, <<"2", "a">> }
OrderDetailsValues == [orderId : OrderIds, amount : 0..MaxAmount]

NoRequest == [orderId |-> 0, amount |-> 0, reason |-> <<>>, sent |-> FALSE]

\* What processRefund may throw: an Error with a message, or some other value.
ThrownValues == { [isError |-> TRUE,  message |-> "Refund declined"],
                  [isError |-> FALSE, message |-> ""] }

DigitValue(c) ==
  CASE c = "0" -> 0 [] c = "1" -> 1 [] c = "2" -> 2 [] c = "3" -> 3 [] c = "4" -> 4

RECURSIVE DigitPrefix(_)
DigitPrefix(s) ==
  IF s # <<>> /\ Head(s) \in Digits THEN <<Head(s)>> \o DigitPrefix(Tail(s)) ELSE <<>>

RECURSIVE Decimal(_)
Decimal(ds) ==
  IF ds = <<>> THEN 0
  ELSE 10 * Decimal(SubSeq(ds, 1, Len(ds) - 1)) + DigitValue(ds[Len(ds)])

\* parseFloat: an optional sign and the longest run of digits that follows;
\* NaN when there is no digit there.
ParseFloat(text) ==
  LET neg  == text # <<>> /\ Head(text) = "-"
      body == IF neg THEN Tail(text) ELSE text
      ds   == DigitPrefix(body)
  IN  IF ds = <<>> THEN [nan |-> TRUE, num |-> 0]
      ELSE [nan |-> FALSE, num |-> IF neg THEN 0 - Decimal(ds) ELSE Decimal(ds)]

\* toast({title: t(k1), description: ..., variant}); t is taken to return its key.
Toast(title, description, variant) ==
  [ev |-> "toast", title |-> title, description |-> description, variant |-> variant]

\* handleAmountChange
HandleAmountChange(text) ==
  LET value == ParseFloat(text)
  IN  /\ refundAmount' =
           IF ~value.nan /\ value.num > 0 /\ value.num <= orderDetails.amount
             THEN value.num
             ELSE refundAmount
      /\ UNCHANGED <<orderDetails, hasOnSuccess, reason, isProcessing, pending,
                     requests, submitLog, notRefund>>

\* handleReasonChange
HandleReasonChange(text) ==
  /\ reason' = text
  /\ UNCHANGED <<orderDetails, hasOnSuccess, refundAmount, isProcessing, pending,
                 requests, submitLog, notRefund>>

\* The parent renders the dialog again with another order total; the
\* useState initialiser is not run again, so refundAmount keeps its value.
Rerender(od) ==
  /\ od # orderDetails
  /\ od.orderId = orderDetails.orderId
  /\ orderDetails' = od
  /\ UNCHANGED <<hasOnSuccess, refundAmount, reason, isProcessing, pending,
                 requests, submitLog, notRefund>>

\* Mutant of AmountRejected: the upper bound is exclusive.
AmountRejectedExclusive(a, total) == a <= 0 \/ a >= total

\* The first condition of handleSubmit.
AmountRejected(a, total) == a <= 0 \/ a > total

\* Mutant of ReasonRejected: the reason is not trimmed.
ReasonRejectedUntrimmed(r) == r = <<>>

\* The second condition of handleSubmit.
ReasonRejected(r) == Trim(r) = <<>>

\* Mutant of ProcessRefundArgs: the order total is refunded, not the entered amount.
ProcessRefundArgsTotal ==
  [orderId |-> orderDetails.orderId, amount |-> orderDetails.amount,
   reason |-> reason, sent |-> TRUE]

\* The argument handleSubmit passes to VirtualCardService.processRefund.
ProcessRefundArgs ==
  [orderId |-> orderDetails.orderId, amount |-> refundAmount, reason |-> reason,
   sent |-> TRUE]

\* The first entry of submitLog: the values the invocation ran with.
Invocation ==
  [ev |-> "handleSubmit", orderId |-> orderDetails.orderId,
   amount |-> refundAmount, total |-> orderDetails.amount, reason |-> reason]

\* Mutant of ConfirmDisabled: the confirm button is never disabled.
ConfirmDisabledNever == FALSE

\* <Button onClick={handleSubmit} disabled={isProcessing}>
ConfirmDisabled == isProcessing

\* handleSubmit up to its await.  A disabled confirm button does not invoke
\* the handler.
HandleSubmit ==
  /\ ~ConfirmDisabled
  /\ IF AmountRejected(refundAmount, orderDetails.amount)
       THEN /\ submitLog' = <<Invocation,
                 Toast("refund.invalidAmount", "refund.amountError", "destructive")>>
            /\ UNCHANGED <<isProcessing, pending, requests>>
     ELSE IF ReasonRejected(reason)
       THEN /\ submitLog' = <<Invocation,
                 Toast("refund.missingReason", "refund.reasonRequired", "destructive")>>
            /\ UNCHANGED <<isProcessing, pending, requests>>
     ELSE /\ isProcessing' = TRUE
          /\ pending' = ProcessRefundArgs
          /\ requests' = requests + 1
          /\ submitLog' = <<Invocation,
               [ev |-> "processRefund", args |-> ProcessRefundArgs]>>
  /\ UNCHANGED <<orderDetails, hasOnSuccess, refundAmount, reason, notRefund>>

\* What handleSubmit does after processRefund resolved (try body, then finally).
\* The log first notes the response itself.
AfterResolve ==
  <<Toast("refund.success", "refund.processed", "default")>>
    \o (IF hasOnSuccess THEN <<[ev |-> "onSuccess"]>> ELSE <<>>)
    \o <<[ev |-> "onClose"]>>

ProcessRefundResolves ==
  /\ pending.sent
  /\ submitLog' = submitLog \o <<[ev |-> "resolved"]>> \o AfterResolve
  /\ pending' = NoRequest
  /\ requests' = requests - 1
  /\ isProcessing' = FALSE
  /\ UNCHANGED <<orderDetails, hasOnSuccess, refundAmount, reason, notRefund>>

\* Mutant of AfterReject: the description is error.message whatever was thrown.
AfterRejectMessageOnly(error) ==
  <<Toast("refund.failed", error.message, "destructive")>>

\* What handleSubmit does after processRefund threw (catch, then finally).
AfterReject(error) ==
  <<Toast("refund.failed",
          IF error.isError THEN error.message ELSE "refund.errorMessage",
          "destructive")>>

ProcessRefundRejects(error) ==
  /\ pending.sent
  /\ submitLog' = submitLog \o <<[ev |-> "threw", error |-> error]>>
                           \o AfterReject(error)
  /\ pending' = NoRequest
  /\ requests' = requests - 1
  /\ isProcessing' = FALSE
  /\ UNCHANGED <<orderDetails, hasOnSuccess, refundAmount, reason, notRefund>>

\* The dialog as mounted; the other units rest.
InitRefund ==
  /\ orderDetails \in OrderDetailsValues
  /\ hasOnSuccess \in BOOLEAN
  /\ refundAmount = orderDetails.amount
  /\ reason = <<>>
  /\ isProcessing = FALSE
  /\ pending = NoRequest
  /\ requests = 0
  /\ submitLog = <<>>
  /\ countrySearchQuery = <<>>
  /\ session = NoSession /\ user = Null
  /\ loading = TRUE /\ isLoading = TRUE
  /\ isAdmin = FALSE /\ profile = NoProfile
  /\ getSessionPending = FALSE
  /\ inflight = {} /\ calls = 0 /\ lastTrace = NoTrace
  /\ signedOut = FALSE /\ latest = NoQueries
  /\ suPc = "idle" /\ suEmail = Null /\ suUserId = Null /\ suExisted = FALSE
  /\ profileError = Null
  /\ profileRows = {} /\ authIds = {}
  /\ apiCalls = <<>> /\ suToasts = <<>> /\ suResult = NoResult /\ signUps = 0

NextRefund ==
  \/ \E text \in AmountTexts : HandleAmountChange(text)
  \/ \E text \in Reasons : HandleReasonChange(text)
  \/ \E od \in OrderDetailsValues : Rerender(od)
  \/ HandleSubmit
  \/ ProcessRefundResolves
  \/ \E error \in ThrownValues : ProcessRefundRejects(error)

SpecRefund == InitRefund /\ [][NextRefund]_vars


(***************************************************************************)
(* CountrySelector                                                         *)
(***************************************************************************)
MaxQueryLen == 3       \* typed queries have at most this many characters

notCountry == <<refundVars, sessionVars, signUpVars>>

\* The static list of '@/components/ui/country-data': code, name, nameAr
\* (letters of nameAr are written by their names).
countries ==
  << [code   |-> <<"E", "G">>,
      name   |-> <<"E", "g", "y", "p", "t">>,
      nameAr |-> <<"meem", "sad", "reh">>],
     [code   |-> <<"S", "A">>,
      name   |-> <<"S", "a", "u", "d", "i", " ", "A", "r", "a", "b", "i", "a">>,
      nameAr |-> <<"alef", "lam", "seen", "ain", "waw", "dal", "yeh", "teh">>],
     [code   |-> <<"Y", "E">>,
      name   |-> <<"Y", "e", "m", "e", "n">>,
      nameAr |-> <<"alef", "lam", "yeh", "meem", "noon">>] >>

QueryChars == {"e", "E", "y", " ", "meem"}
Queries    == StringsUpTo(QueryChars, MaxQueryLen)

UpperCase == <<"A", "B", "C", "D", "E", "F", "G", "H", "I", "J", "K", "L", "M",
               "N", "O", "P", "Q", "R", "S", "T", "U", "V", "W", "X", "Y", "Z">>
LowerCase == <<"a", "b", "c", "d", "e", "f", "g", "h", "i", "j", "k", "l", "m",
               "n", "o", "p", "q", "r", "s", "t", "u", "v", "w", "x", "y", "z">>

LowerChar(c) ==
  IF \E k \in 1..Len(UpperCase) : UpperCase[k] = c
    THEN LowerCase[CHOOSE k \in 1..Len(UpperCase) : UpperCase[k] = c]
    ELSE c

\* String.prototype.toLowerCase
ToLowerCase(s) == [k \in 1..Len(s) |-> LowerChar(s[k])]

\* String.prototype.includes
Includes(s, q) ==
  \E k \in 1..(Len(s) - Len(q) + 1) : SubSeq(s, k, k + Len(q) - 1) = q

\* Mutant of filteredCountries: the query is not lower-cased.
filteredCountriesRawQuery ==
  IF Trim(countrySearchQuery) = <<>>
    THEN countries
    ELSE SelectSeq(countries,
           LAMBDA country :
             \/ Includes(ToLowerCase(country.name), countrySearchQuery)
             \/ Includes(ToLowerCase(country.nameAr), countrySearchQuery)
             \/ Includes(ToLowerCase(country.code), countrySearchQuery))

\* const filteredCountries = ...
filteredCountries ==
  IF Trim(countrySearchQuery) = <<>>
    THEN countries
    ELSE LET query == ToLowerCase(countrySearchQuery)
         IN  SelectSeq(countries,
               LAMBDA country :
                 \/ Includes(ToLowerCase(country.name), query)
                 \/ Includes(ToLowerCase(country.nameAr), query)
                 \/ Includes(ToLowerCase(country.code), query))

\* The render shows the list when it has entries and the 'not found' text otherwise.
NotFoundShown == ~(Len(filteredCountries) > 0)

\* handleSearchInputChange
HandleSearchInputChange(text) ==
  /\ text # countrySearchQuery
  /\ countrySearchQuery' = text
  /\ UNCHANGED notCountry

\* The selector as mounted; the other units rest.
InitCountry ==
  /\ countrySearchQuery = <<>>
  /\ orderDetails = [orderId |-> 42, amount |-> 0]
  /\ hasOnSuccess = FALSE
  /\ refundAmount = 0
  /\ reason = <<>>
  /\ isProcessing = FALSE
  /\ pending = NoRequest
  /\ requests = 0
  /\ submitLog = <<>>
  /\ session = NoSession /\ user = Null
  /\ loading = TRUE /\ isLoading = TRUE
  /\ isAdmin = FALSE /\ profile = NoProfile
  /\ getSessionPending = FALSE
  /\ inflight = {} /\ calls = 0 /\ lastTrace = NoTrace
  /\ signedOut = FALSE /\ latest = NoQueries
  /\ suPc = "idle" /\ suEmail = Null /\ suUserId = Null /\ suExisted = FALSE
  /\ profileError = Null
  /\ profileRows = {} /\ authIds = {}
  /\ apiCalls = <<>> /\ suToasts = <<>> /\ suResult = NoResult /\ signUps = 0

NextCountry == \E text \in Queries : HandleSearchInputChange(text)

SpecCountry == InitCountry /\ [][NextCountry]_vars

(***************************************************************************)
(* AuthProvider: session, user, profile and role                           *)
(***************************************************************************)
MaxCalls == 3          \* callbacks that may start queries (session changes, refreshes)

notSession == <<refundVars, countryVars, signUpVars>>

Users    == {"u1", "u2"}
Sessions == [user : Users]

\* The row of the profiles table with the given id: u1 is an admin.
ProfileRow(userId) ==
  [id |-> userId, user_type |-> IF userId = "u1" THEN "admin" ELSE "user"]

\* The events of onAuthStateChange and the sessions they come with: a
\* SIGNED_OUT comes with no session, a sign-in or token refresh with one.
AuthEvents == {"INITIAL_SESSION", "SIGNED_IN", "TOKEN_REFRESHED", "SIGNED_OUT"}
EventSessions(event) ==
  CASE event = "SIGNED_OUT"      -> {NoSession}
    [] event = "INITIAL_SESSION" -> {NoSession} \cup Sessions
    [] OTHER                     -> Sessions

\* Outcomes of a .single() query: {data, error: null} or {data: null, error}.
QueryOutcomes == {"data", "error"}

\* session?.user ?? null
SessionUser(s) == IF s = NoSession THEN Null ELSE s.user

Query(kind, userId, call) == [kind |-> kind, userId |-> userId, call |-> call]

\* Mutant of ListenerBody: the queries are started before the state is set.
ListenerBodyFetchFirst(event, s) ==
  (IF SessionUser(s) # Null THEN <<"fetchProfile", "checkUserRole">> ELSE <<>>)
    \o <<"setSession", "setUser">>
    \o (IF event = "SIGNED_OUT" THEN <<"setIsAdmin", "setProfile">> ELSE <<>>)
    \o <<"setLoading", "setIsLoading">>

\* The body of the onAuthStateChange listener: what it does, in order.
\* fetchProfile and checkUserRole are called without await, so each runs to
\* its own await (the query is sent) and the body goes on.
ListenerBody(event, s) ==
  <<"setSession", "setUser">>
    \o (IF SessionUser(s) # Null THEN <<"fetchProfile", "checkUserRole">> ELSE <<>>)
    \o (IF event = "SIGNED_OUT" THEN <<"setIsAdmin", "setProfile">> ELSE <<>>)
    \o <<"setLoading", "setIsLoading">>

Does(body, effect) == \E k \in 1..Len(body) : body[k] = effect

\* The queries a body starts for the user of s, as call number `call`.
Started(body, s, call) ==
  (IF Does(body, "fetchProfile")
     THEN {Query("profile", SessionUser(s), call)} ELSE {})
  \cup (IF Does(body, "checkUserRole")
     THEN {Query("role", SessionUser(s), call)} ELSE {})

\* The latest-started queries after a body started its own.
LatestAfter(body, call) ==
  [profileCall   |-> IF Does(body, "fetchProfile") THEN call ELSE latest.profileCall,
   profileStatus |-> IF Does(body, "fetchProfile") THEN "pending"
                                                   ELSE latest.profileStatus,
   roleCall      |-> IF Does(body, "checkUserRole") THEN call ELSE latest.roleCall,
   roleStatus    |-> IF Does(body, "checkUserRole") THEN "pending"
                                                    ELSE latest.roleStatus]

\* The listener given to supabase.auth.onAuthStateChange.
OnAuthStateChange(event, s) ==
  LET body == ListenerBody(event, s)
      call == calls + 1
  IN  /\ calls < MaxCalls
      /\ calls' = call
      /\ session' = IF Does(body, "setSession") THEN s ELSE session
      /\ user' = IF Does(body, "setUser") THEN SessionUser(s) ELSE user
      /\ inflight' = inflight \cup Started(body, s, call)
      /\ isAdmin' = IF Does(body, "setIsAdmin") THEN FALSE ELSE isAdmin
      /\ profile' = IF Does(body, "setProfile") THEN NoProfile ELSE profile
      /\ loading' = IF Does(body, "setLoading") THEN FALSE ELSE loading
      /\ isLoading' = IF Does(body, "setIsLoading") THEN FALSE ELSE isLoading
      /\ lastTrace' = [call |-> call, effects |-> body]
      /\ latest' = LatestAfter(body, call)
      /\ signedOut' = IF SessionUser(s) # Null THEN FALSE
                      ELSE IF event = "SIGNED_OUT" THEN TRUE
                      ELSE signedOut
      /\ UNCHANGED <<getSessionPending, notSession>>

\* The callback of supabase.auth.getSession().then(...) in the mount effect.
GetSessionBody(s) ==
  <<"setSession", "setUser">>
    \o (IF SessionUser(s) # Null THEN <<"fetchProfile", "checkUserRole">> ELSE <<>>)
    \o <<"setLoading", "setIsLoading">>

GetSessionResolves(s) ==
  LET body == GetSessionBody(s)
      call == calls + 1
  IN  /\ getSessionPending
      /\ calls < MaxCalls
      /\ getSessionPending' = FALSE
      /\ calls' = call
      /\ session' = s
      /\ user' = SessionUser(s)
      /\ inflight' = inflight \cup Started(body, s, call)
      /\ loading' = FALSE
      /\ isLoading' = FALSE
      /\ latest' = LatestAfter(body, call)
      /\ signedOut' = IF SessionUser(s) # Null THEN FALSE ELSE signedOut
      /\ UNCHANGED <<isAdmin, profile, lastTrace, notSession>>

\* refreshProfile: returns at once without a user, else fetchProfile(user.id).
RefreshProfile ==
  LET call == calls + 1
  IN  /\ user # Null
      /\ calls < MaxCalls
      /\ calls' = call
      /\ inflight' = inflight \cup {Query("profile", user, call)}
      /\ latest' = [latest EXCEPT !.profileCall = call, !.profileStatus = "pending"]
      /\ UNCHANGED <<session, user, loading, isLoading, isAdmin, profile,
                     getSessionPending, lastTrace, signedOut, notSession>>

\* fetchProfile after its await: setProfile(data), or the error is logged.
FetchProfileReturns(query, outcome) ==
  /\ query \in inflight
  /\ query.kind = "profile"
  /\ inflight' = inflight \ {query}
  /\ profile' = IF outcome = "data" THEN ProfileRow(query.userId) ELSE profile
  /\ latest' = IF query.call = latest.profileCall
                 THEN [latest EXCEPT !.profileStatus =
                                       IF outcome = "data" THEN "ok" ELSE "error"]
                 ELSE latest
  /\ UNCHANGED <<session, user, loading, isLoading, isAdmin, getSessionPending,
                 calls, lastTrace, signedOut, notSession>>

\* checkUserRole after its await: setIsAdmin(data?.user_type === 'admin'),
\* or the error is logged.
CheckUserRoleReturns(query, outcome) ==
  /\ query \in inflight
  /\ query.kind = "role"
  /\ inflight' = inflight \ {query}
  /\ isAdmin' = IF outcome = "data"
                  THEN ProfileRow(query.userId).user_type = "admin"
                  ELSE isAdmin
  /\ latest' = IF query.call = latest.roleCall
                 THEN [latest EXCEPT !.roleStatus =
                                       IF outcome = "data" THEN "ok" ELSE "error"]
                 ELSE latest
  /\ UNCHANGED <<session, user, loading, isLoading, profile, getSessionPending,
                 calls, lastTrace, signedOut, notSession>>

AllQueries == [kind : {"profile", "role"}, userId : Users, call : 1..MaxCalls]

\* The provider as mounted: the state of the useState calls, getSession()
\* under way; the other units rest.
InitSession ==
  /\ session = NoSession /\ user = Null
  /\ loading = TRUE /\ isLoading = TRUE
  /\ isAdmin = FALSE /\ profile = NoProfile
  /\ getSessionPending = TRUE
  /\ inflight = {} /\ calls = 0 /\ lastTrace = NoTrace
  /\ signedOut = FALSE /\ latest = NoQueries
  /\ orderDetails = [orderId |-> 42, amount |-> 0]
  /\ hasOnSuccess = FALSE
  /\ refundAmount = 0
  /\ reason = <<>>
  /\ isProcessing = FALSE
  /\ pending = NoRequest
  /\ requests = 0
  /\ submitLog = <<>>
  /\ countrySearchQuery = <<>>
  /\ suPc = "idle" /\ suEmail = Null /\ suUserId = Null /\ suExisted = FALSE
  /\ profileError = Null
  /\ profileRows = {} /\ authIds = {}
  /\ apiCalls = <<>> /\ suToasts = <<>> /\ suResult = NoResult /\ signUps = 0

NextSession ==
  \/ \E s \in {NoSession} \cup Sessions : GetSessionResolves(s)
  \/ \E event \in AuthEvents : \E s \in EventSessions(event) : OnAuthStateChange(event, s)
  \/ RefreshProfile
  \/ \E query \in AllQueries : \E outcome \in QueryOutcomes :
       FetchProfileReturns(query, outcome)
  \/ \E query \in AllQueries : \E outcome \in QueryOutcomes :
       CheckUserRoleReturns(query, outcome)

SpecSession == InitSession /\ [][NextSession]_vars

(***************************************************************************)
(* AuthProvider: signUp                                                    *)
(***************************************************************************)
MaxSignUps == 2        \* signUp calls in a run

notSignUp == <<refundVars, countryVars, sessionVars>>

Emails == {"a@x.io", "b@x.io"}

\* An account made before: identity 0 with its profile row.
ExistingIdentity == [id |-> 0, email |-> "a@x.io"]
ExistingRow      == [id |-> 0, email |-> "a@x.io", user_type |-> "user"]

\* Outcomes of the backend requests of signUp.
PreCheckOutcomes == {"row", "none", "error"}   \* maybeSingle(): data, null, error
AuthOutcomes     == {"user", "nouser", "error"}
InsertOutcomes   == {"ok", "error"}
DeleteOutcomes   == {"ok", "error", "throws"}

Api(name, arg) == [api |-> name, arg |-> arg]
Returned(error, data) == [returned |-> TRUE, error |-> error, data |-> data]

\* The outer catch of signUp: the notification and the returned value.
\* (error.message || "auth.unknown_error": the messages here are not empty.)
RegistrationFailed(message) ==
  Toast("auth.registration_failed", message, "destructive")

\* toast({title, description}) of a finished registration.
RegistrationSuccess ==
  Toast("auth.registration_success", "auth.account_created", Null)

\* signUp(email, password, metadata) up to its first await: the pre-check
\* query profiles.select('id').eq('email', email).maybeSingle().
SignUp(email) ==
  /\ suPc = "idle"
  /\ signUps < MaxSignUps
  /\ signUps' = signUps + 1
  /\ suPc' = "precheck"
  /\ suEmail' = email
  /\ suUserId' = Null
  /\ profileError' = Null
  /\ suExisted' = (\E row \in profileRows : row.email = email)
  /\ apiCalls' = <<Api("profiles.select", email)>>
  /\ suToasts' = <<>>
  /\ suResult' = NoResult
  /\ UNCHANGED <<profileRows, authIds, notSignUp>>

\* existingUser: the data of the pre-check response (null with an error).
ExistingUser(outcome) == outcome = "row"

\* The pre-check returned: a checkError is logged only; with existingUser
\* signUp fails, else it calls supabase.auth.signUp.
PreCheckReturns(outcome) ==
  /\ suPc = "precheck"
  /\ outcome = "row"  => \E row \in profileRows : row.email = suEmail
  /\ outcome = "none" => ~\E row \in profileRows : row.email = suEmail
  /\ IF ExistingUser(outcome)
       THEN /\ suToasts' = Append(suToasts,
                             RegistrationFailed("auth.email_already_exists"))
            /\ suResult' = Returned("auth.email_already_exists", Null)
            /\ suPc' = "idle"
            /\ UNCHANGED apiCalls
       ELSE /\ apiCalls' = Append(apiCalls, Api("auth.signUp", suEmail))
            /\ suPc' = "authSignUp"
            /\ UNCHANGED <<suToasts, suResult>>
  /\ UNCHANGED <<suEmail, suUserId, suExisted, profileError, profileRows, authIds,
                 signUps, notSignUp>>

\* supabase.auth.signUp returned: an error is thrown to the outer catch;
\* with data.user the profile row is inserted; without, signUp succeeds.
AuthSignUpReturns(outcome) ==
  /\ suPc = "authSignUp"
  /\ CASE outcome = "error" ->
            /\ suToasts' = Append(suToasts, RegistrationFailed("User already registered"))
            /\ suResult' = Returned("User already registered", Null)
            /\ suPc' = "idle"
            /\ UNCHANGED <<suUserId, authIds, apiCalls>>
       [] outcome = "user" ->
            /\ suUserId' = signUps
            /\ authIds' = authIds \cup {[id |-> signUps, email |-> suEmail]}
            /\ apiCalls' = Append(apiCalls, Api("profiles.insert", signUps))
            /\ suPc' = "insert"
            /\ UNCHANGED <<suToasts, suResult>>
       [] outcome = "nouser" ->
            /\ suToasts' = Append(suToasts, RegistrationSuccess)
            /\ suResult' = Returned(Null, "data")
            /\ suPc' = "idle"
            /\ UNCHANGED <<suUserId, authIds, apiCalls>>
  /\ UNCHANGED <<suEmail, suExisted, profileError, profileRows, signUps, notSignUp>>

\* The profiles insert returned: without profileError signUp succeeds; with
\* it, supabase.auth.admin.deleteUser(data.user.id) is called.
InsertReturns(outcome) ==
  /\ suPc = "insert"
  /\ IF outcome = "ok"
       THEN /\ profileRows' = profileRows \cup
                 {[id |-> suUserId, email |-> suEmail, user_type |-> "user"]}
            /\ suToasts' = Append(suToasts, RegistrationSuccess)
            /\ suResult' = Returned(Null, "data")
            /\ suPc' = "idle"
            /\ UNCHANGED <<profileError, apiCalls>>
       ELSE /\ profileError' = "profileError"
            /\ apiCalls' = Append(apiCalls, Api("auth.admin.deleteUser", suUserId))
            /\ suPc' = "deleteUser"
            /\ UNCHANGED <<profileRows, suToasts, suResult>>
  /\ UNCHANGED <<suEmail, suUserId, suExisted, authIds, signUps, notSignUp>>

\* Mutant of ThrownAfterDelete: without the inner try/catch a throwing
\* deleteUser reaches the outer catch with its own error.
ThrownAfterDeleteUncaught(outcome) ==
  IF outcome = "throws" THEN "User not allowed" ELSE "auth.profile_creation_failed"

\* The message of the error that reaches the outer catch once deleteUser is
\* over: its own failure is caught and logged, then
\* new Error('auth.profile_creation_failed') is thrown.
ThrownAfterDelete(outcome) == "auth.profile_creation_failed"

\* deleteUser is over (done, returned an error, or threw).
DeleteUserReturns(outcome) ==
  /\ suPc = "deleteUser"
  /\ authIds' = IF outcome = "ok"
                  THEN { i \in authIds : i.id # suUserId }
                  ELSE authIds
  /\ suToasts' = Append(suToasts, RegistrationFailed(ThrownAfterDelete(outcome)))
  /\ suResult' = Returned(ThrownAfterDelete(outcome), Null)
  /\ suPc' = "idle"
  /\ UNCHANGED <<suEmail, suUserId, suExisted, profileError, profileRows, apiCalls,
                 signUps, notSignUp>>

\* The provider with one account made before; the other units rest.
InitSignUp ==
  /\ suPc = "idle" /\ suEmail = Null /\ suUserId = Null /\ suExisted = FALSE
  /\ profileError = Null
  /\ profileRows = {ExistingRow} /\ authIds = {ExistingIdentity}
  /\ apiCalls = <<>> /\ suToasts = <<>> /\ suResult = NoResult /\ signUps = 0
  /\ session = NoSession /\ user = Null
  /\ loading = TRUE /\ isLoading = TRUE
  /\ isAdmin = FALSE /\ profile = NoProfile
  /\ getSessionPending = FALSE
  /\ inflight = {} /\ calls = 0 /\ lastTrace = NoTrace
  /\ signedOut = FALSE /\ latest = NoQueries
  /\ orderDetails = [orderId |-> 42, amount |-> 0]
  /\ hasOnSuccess = FALSE
  /\ refundAmount = 0
  /\ reason = <<>>
  /\ isProcessing = FALSE
  /\ pending = NoRequest
  /\ requests = 0
  /\ submitLog = <<>>
  /\ countrySearchQuery = <<>>

NextSignUp ==
  \/ \E email \in Emails : SignUp(email)
  \/ \E outcome \in PreCheckOutcomes : PreCheckReturns(outcome)
  \/ \E outcome \in AuthOutcomes : AuthSignUpReturns(outcome)
  \/ \E outcome \in InsertOutcomes : InsertReturns(outcome)
  \/ \E outcome \in DeleteOutcomes : DeleteUserReturns(outcome)

SpecSignUp == InitSignUp /\ [][NextSignUp]_vars

(***************************************************************************)
(* Claims about the refund dialog.  They read submitLog, whose first entry *)
(* holds the values the latest handleSubmit invocation ran with.           *)
(***************************************************************************)
Submitted     == submitLog # <<>>
Invoked       == submitLog[1]
AmountInRange == 0 < Invoked.amount /\ Invoked.amount <= Invoked.total
ReasonBlank   == \A k \in 1..Len(Invoked.reason) : Invoked.reason[k] \in Whitespace
Accepted      == Len(submitLog) >= 2 /\ submitLog[2].ev = "processRefund"
RefundCalls   == { k \in 1..Len(submitLog) : submitLog[k].ev = "processRefund" }
Shown(title)  == \E k \in 1..Len(submitLog) :
                   submitLog[k].ev = "toast" /\ submitLog[k].title = title
CallbackRun(name) == \E k \in 1..Len(submitLog) : submitLog[k].ev = name
Responded(how) == Len(submitLog) >= 3 /\ submitLog[3].ev = how

\* C3 as stated: a submission is accepted (processRefund is called) if and
\* only if 0 < a <= orderTotal, and for every other amount a validation
\* notification fires and processRefund is not called.
C3_AcceptedIffAmountInRange ==
  Submitted =>
    /\ Accepted <=> AmountInRange
    /\ ~AmountInRange => Shown("refund.invalidAmount") /\ RefundCalls = {}

\* C3 amended: a submission is accepted if and only if 0 < a <= orderTotal
\* and the reason is not empty after trimming; for every amount outside
\* (0, orderTotal] the amount notification fires and processRefund is not
\* called.
C3_AcceptedIffAmountAndReasonValid ==
  Submitted =>
    /\ Accepted <=> (AmountInRange /\ ~ReasonBlank)
    /\ ~AmountInRange =>
         /\ submitLog[2] = Toast("refund.invalidAmount", "refund.amountError",
                                 "destructive")
         /\ RefundCalls = {}
         /\ ~pending.sent

\* C3 witness: the full order total, the upper end of the range, was
\* submitted with a reason and accepted.
C3_Witness ==
  /\ Submitted /\ Accepted
  /\ Invoked.amount = Invoked.total /\ Invoked.total = MaxAmount
  /\ pending.sent

\* C4: a submission whose reason is empty after trimming is rejected: a
\* destructive notification fires, processRefund is not called and
\* isProcessing stays false, whether the amount is valid or not.
C4_BlankReasonRejected ==
  (Submitted /\ ReasonBlank) =>
    /\ Len(submitLog) = 2
    /\ submitLog[2].ev = "toast" /\ submitLog[2].variant = "destructive"
    /\ RefundCalls = {}
    /\ ~pending.sent
    /\ ~isProcessing

\* C4 witness: a reason of blanks only, with a valid amount, got the
\* missing-reason notification.
C4_Witness ==
  /\ Submitted /\ AmountInRange
  /\ Invoked.reason = <<" ">>
  /\ Shown("refund.missingReason")

C6_ThrowLeavesDialogOpen ==
  /\ [](Submitted /\ Responded("threw") =>
          /\ Len(submitLog) = 4
          /\ submitLog[4] =
               Toast("refund.failed",
                     IF submitLog[3].error.isError
                       THEN submitLog[3].error.message
                       ELSE "refund.errorMessage",
                     "destructive")
          /\ ~CallbackRun("onSuccess") /\ ~CallbackRun("onClose")
          /\ RefundCalls = {2}
          /\ ~isProcessing
          /\ ~pending.sent)
  /\ [][(pending.sent /\ ~pending'.sent /\ Len(submitLog') >= 3
           /\ submitLog'[3].ev = "threw") =>
          /\ refundAmount' = refundAmount
          /\ reason' = reason]_vars

\* C6 witness: a value that is no Error was thrown, and the generic message
\* was shown.
C6_Witness ==
  /\ Submitted /\ Responded("threw")
  /\ ~submitLog[3].error.isError
  /\ submitLog[4].description = "refund.errorMessage"
  /\ ~isProcessing

(***************************************************************************)
(* Claims about the country selector.                                      *)
(***************************************************************************)
\* s contains q when letter case is ignored.
ContainsIgnoringCase(s, q) ==
  \E off \in 0..(Len(s) - Len(q)) :
    \A j \in 1..Len(q) : LowerChar(s[off + j]) = LowerChar(q[j])

EntryMatches(country, q) ==
  \/ ContainsIgnoringCase(country.name, q)
  \/ ContainsIgnoringCase(country.nameAr, q)
  \/ ContainsIgnoringCase(country.code, q)

MatchingEntries(q) == SelectSeq(countries, LAMBDA country : EntryMatches(country, q))

QueryBlank == \A k \in 1..Len(countrySearchQuery) : countrySearchQuery[k] \in Whitespace

\* C8 as stated: for every query, filteredCountries is exactly the entries
\* whose name, nameAr or code contains the query case-insensitively, in list
\* order; the empty query yields the full list; 'not found' is shown exactly
\* when no entry matches.
C8_FilterIsContainment ==
  /\ filteredCountries = MatchingEntries(countrySearchQuery)
  /\ countrySearchQuery = <<>> => filteredCountries = countries
  /\ NotFoundShown <=> MatchingEntries(countrySearchQuery) = <<>>

\* C8 amended: for every query that is not empty after trimming,
\* filteredCountries is exactly the entries whose name, nameAr or code
\* contains the (untrimmed) query case-insensitively, in list order; a query
\* that is empty after trimming yields the full list; 'not found' is shown
\* exactly when filteredCountries is empty.
C8_FilterIsContainmentUnlessBlank ==
  /\ ~QueryBlank => filteredCountries = MatchingEntries(countrySearchQuery)
  /\ QueryBlank => filteredCountries = countries
  /\ NotFoundShown <=> (~QueryBlank /\ MatchingEntries(countrySearchQuery) = <<>>)

\* C8 witness: an upper-case query selects the two entries that contain it
\* in another letter case, and leaves one out.
C8_Witness ==
  /\ countrySearchQuery = <<"E">>
  /\ Len(filteredCountries) = 2
  /\ filteredCountries[1].code = <<"E", "G">>
  /\ ~NotFoundShown

(***************************************************************************)
(* Claims about the session context.                                       *)
(***************************************************************************)
\* C1: in every state after the listener handled a SIGNED_OUT and before a
\* later session change that carries a user, isAdmin is false and profile is
\* null, also when profile or role queries started earlier complete later.
C1_SignedOutClearsProfileAndRole ==
  signedOut => (isAdmin = FALSE /\ profile = NoProfile)

\* Position of an effect in a listener body (0 when it is not there).
Position(body, effect) ==
  IF Does(body, effect) THEN CHOOSE k \in 1..Len(body) : body[k] = effect ELSE 0

\* C9: in every listener invocation whose session has a user, setSession and
\* setUser are issued before fetchProfile and checkUserRole are started;
\* both queries are in flight together when the invocation ends (neither
\* waited for the other); and while both are in flight either response may
\* be applied next.
C9_StateSetBeforeIndependentFetches ==
  /\ [](Does(lastTrace.effects, "fetchProfile") =>
          /\ Does(lastTrace.effects, "checkUserRole")
          /\ Position(lastTrace.effects, "setSession")
               < Position(lastTrace.effects, "fetchProfile")
          /\ Position(lastTrace.effects, "setUser")
               < Position(lastTrace.effects, "fetchProfile")
          /\ Position(lastTrace.effects, "setSession")
               < Position(lastTrace.effects, "checkUserRole")
          /\ Position(lastTrace.effects, "setUser")
               < Position(lastTrace.effects, "checkUserRole"))
  /\ [][(lastTrace'.call = calls' /\ calls' = calls + 1 /\ user' # Null) =>
          /\ session'.user = user'
          /\ Query("profile", user', calls') \in inflight'
          /\ Query("role", user', calls') \in inflight']_vars
  /\ [](\A p, r \in inflight :
          (p.kind = "profile" /\ r.kind = "role" /\ p.call = r.call) =>
            /\ ENABLED FetchProfileReturns(p, "data")
            /\ ENABLED CheckUserRoleReturns(r, "data"))

\* C9 witness: of two listener invocations with a user (getSession() has
\* not resolved, and the first call cannot be a refresh as there was no
\* user), the first has had its role response applied while its profile
\* query is still in flight, and the second the other way round.
C9_Witness ==
  \E c1, c2 \in 1..calls : \E u1, u2 \in Users :
    /\ c1 < c2
    /\ Query("profile", u1, c1) \in inflight
    /\ Query("role", u1, c1) \notin inflight
    /\ Query("role", u2, c2) \in inflight
    /\ Query("profile", u2, c2) \notin inflight
    /\ c1 = 1 /\ getSessionPending
    /\ lastTrace.call = c2

\* C10: whenever a user is present, no profile or role query is in flight
\* and the latest-started query of each kind succeeded, profile is the row
\* of the current user and isAdmin says whether that row's user_type is
\* 'admin'.
C10_ProfileAndRoleOfCurrentUser ==
  (/\ user # Null
   /\ inflight = {}
   /\ latest.profileStatus = "ok"
   /\ latest.roleStatus = "ok") =>
     /\ profile.id = user
     /\ isAdmin = (profile.user_type = "admin")

(***************************************************************************)
(* Claims about signUp.                                                    *)
(***************************************************************************)
Called(name) == { k \in 1..Len(apiCalls) : apiCalls[k].api = name }
ToastShown(title) == \E k \in 1..Len(suToasts) : suToasts[k].title = title

\* C2: a signUp call made while a profile row with its email exists fails
\* and invokes neither supabase.auth.signUp nor the profiles insert,
\* whatever the pre-check query answers, its own error included.
C2_ExistingEmailNeverReachesSignUp ==
  suExisted =>
    /\ Called("auth.signUp") = {}
    /\ Called("profiles.insert") = {}
    /\ suResult.returned => suResult.error # Null

\* C7: when the identity was created and the profile insert failed,
\* deleteUser is attempted exactly once, for the identity just created, and
\* whatever its outcome signUp returns the error
\* 'auth.profile_creation_failed' with data null, shows the
\* registration-failed notification and never the registration-success one.
C7_InsertFailureSurfaced ==
  profileError # Null =>
    /\ Cardinality(Called("auth.admin.deleteUser")) = 1
    /\ \A k \in Called("auth.admin.deleteUser") : apiCalls[k].arg = suUserId
    /\ ~ToastShown("auth.registration_success")
    /\ suPc \in {"deleteUser", "idle"}
    /\ suPc = "idle" =>
         /\ suResult = Returned("auth.profile_creation_failed", Null)
         /\ suToasts = <<Toast("auth.registration_failed",
                               "auth.profile_creation_failed", "destructive")>>

\* C7 witness: the insert failed, the delete did not remove the identity,
\* and signUp has returned.
C7_Witness ==
  /\ profileError # Null
  /\ suPc = "idle" /\ suResult.returned
  /\ \E i \in authIds : i.id = suUserId

(***************************************************************************)
(* Claim about requests of the refund dialog in flight.                    *)
(***************************************************************************)
\* C11: at most one processRefund request is in flight at any time; while
\* isProcessing is true the confirm button is disabled and handleSubmit
\* cannot start a second request; and isProcessing is true exactly while a
\* request is in flight.
C11_OneRefundInFlight ==
  /\ requests <= 1
  /\ isProcessing <=> requests = 1
  /\ isProcessing => (ConfirmDisabled /\ ~ENABLED HandleSubmit)
  /\ requests = 1 => pending.sent

\* C11 witness: a request is in flight and the user has meanwhile typed
\* another valid reason, so a further submission would pass both checks.
C11_Witness ==
  /\ requests = 1 /\ isProcessing
  /\ ~ReasonRejected(reason) /\ reason # pending.reason
  /\ ~AmountRejected(refundAmount, orderDetails.amount)
=============================================================================
